---- MODULE Spec2Model ----
(***************************************************************************)
(* The error type of the bnf crate (src/error.rs): the four-variant enum   *)
(* Error, its Display rendering, and the two conversions                   *)
(* From<nom::Err<&[u8]>> and From<nom::Needed>.                            *)
(*                                                                         *)
(* A text (Rust String) is a sequence of Unicode scalar values; a byte     *)
(* slice (&[u8]) is a sequence of numbers in 0..255.                       *)
(***************************************************************************)
EXTENDS Naturals, Sequences, FiniteSets

VARIABLES pc, origin, input, value, out

vars == << pc, origin, input, value, out >>

-----------------------------------------------------------------------------
(* Bounds of the model *)

\* longest offending input slice handed over by the parsing engine
MaxSliceLen == 3
\* longest chain of sub-errors of a Node / NodePosition failure
MaxChainLen == 2
\* largest amount carried by Needed::Size
MaxNeeded == 12

-----------------------------------------------------------------------------
(* String literals of the source, as sequences of code points *)

\* "Parsing error: Unknown origin"
UnknownOrigin ==
    << 80, 97, 114, 115, 105, 110, 103, 32, 101, 114, 114, 111, 114, 58,
       32, 85, 110, 107, 110, 111, 119, 110, 32, 111, 114, 105, 103, 105,
       110 >>

\* "Parsing error: Unknown origin."
UnknownOriginDot ==
    << 80, 97, 114, 115, 105, 110, 103, 32, 101, 114, 114, 111, 114, 58,
       32, 85, 110, 107, 110, 111, 119, 110, 32, 111, 114, 105, 103, 105,
       110, 46 >>

\* "Parsing error: When input is "
WhenInputIs ==
    << 80, 97, 114, 115, 105, 110, 103, 32, 101, 114, 114, 111, 114, 58,
       32, 87, 104, 101, 110, 32, 105, 110, 112, 117, 116, 32, 105, 115,
       32 >>

\* "Data error: insufficient size, expectation unknown"
ExpectationUnknown ==
    << 68, 97, 116, 97, 32, 101, 114, 114, 111, 114, 58, 32, 105, 110, 115,
       117, 102, 102, 105, 99, 105, 101, 110, 116, 32, 115, 105, 122, 101,
       44, 32, 101, 120, 112, 101, 99, 116, 97, 116, 105, 111, 110, 32,
       117, 110, 107, 110, 111, 119, 110 >>

\* "Data error: insufficient size, expected "
ExpectedPrefix ==
    << 68, 97, 116, 97, 32, 101, 114, 114, 111, 114, 58, 32, 105, 110, 115,
       117, 102, 102, 105, 99, 105, 101, 110, 116, 32, 115, 105, 122, 101,
       44, 32, 101, 120, 112, 101, 99, 116, 101, 100, 32 >>

\* " bytes"
BytesSuffix ==
    << 32, 98, 121, 116, 101, 115 >>

\* the characters ' ' and '.'
Space == 32
Period == 46

\* U+FFFD REPLACEMENT CHARACTER, what String::from_utf8_lossy substitutes
Replacement == 65533

-----------------------------------------------------------------------------
(* enum Error *)

Variants == { "ParseError", "ParseIncomplete", "GenerateError", "RecursionLimit" }

MkError(variant, msg) == [ variant |-> variant, msg |-> msg ]

\* impl fmt::Display for Error: each arm is write!(f, "{}", s), which pushes the
\* stored string onto the formatter's (initially empty) buffer.
WriteStr(buf, s) == buf \o s

\* Display with the RecursionLimit arm writing the fixed description "BNF error"
\* of the error::Error impl in front of the stored string
DisplayDescribed(e) ==
    IF e.variant = "RecursionLimit"
    THEN WriteStr(<< 66, 78, 70, 32, 101, 114, 114, 111, 114 >>, e.msg)
    ELSE WriteStr(<< >>, e.msg)

Display(e) ==
    CASE e.variant = "ParseError"      -> WriteStr(<< >>, e.msg)
      [] e.variant = "ParseIncomplete" -> WriteStr(<< >>, e.msg)
      [] e.variant = "GenerateError"   -> WriteStr(<< >>, e.msg)
      [] e.variant = "RecursionLimit"  -> WriteStr(<< >>, e.msg)

\* derive(Clone): a new value with the same discriminant and a copy of the string
Clone(e) ==
    [ variant |-> e.variant, msg |-> [ i \in 1..Len(e.msg) |-> e.msg[i] ] ]

\* String equality: same length and the same contents, position by position
StrEq(s, t) ==
    /\ Len(s) = Len(t)
    /\ \A i \in 1..Len(s) : s[i] = t[i]

\* an equality that looks at the strings only
ErrorEqMsgOnly(a, b) == StrEq(a.msg, b.msg)

\* derive(PartialEq): the discriminants are compared first, then the fields
ErrorEq(a, b) ==
    IF a.variant # b.variant THEN FALSE ELSE StrEq(a.msg, b.msg)

-----------------------------------------------------------------------------
(* Integer and slice formatting used by the format! calls *)

RECURSIVE ToDecimal(_)
\* Display of an unsigned integer: decimal digits, most significant first
ToDecimal(n) ==
    IF n < 10 THEN << 48 + n >>
    ELSE Append(ToDecimal(n \div 10), 48 + (n % 10))

RECURSIVE DebugItems(_, _)
\* the items of a Debug-formatted slice from position i on, separated by ", "
DebugItems(p, i) ==
    IF i > Len(p) THEN << >>
    ELSE (IF i > 1 THEN << 44, 32 >> ELSE << >>) \o ToDecimal(p[i])
             \o DebugItems(p, i + 1)

\* Debug of &[u8]: "[48, 46]"
SliceDebug(p) == << 91 >> \o DebugItems(p, 1) \o << 93 >>

\* Debug of nom::ErrorKind: the name of the kind
KindDebug(k) ==
    CASE k = "Tag" -> << 84, 97, 103 >>
      [] k = "Alt" -> << 65, 108, 116 >>

-----------------------------------------------------------------------------
(* String::from_utf8_lossy (standard library): well-formed sequences are    *)
(* decoded, each maximal ill-formed part becomes one U+FFFD                 *)

Utf8CharWidth(b) ==
    IF b < 128 THEN 1
    ELSE IF b >= 194 /\ b <= 223 THEN 2
    ELSE IF b >= 224 /\ b <= 239 THEN 3
    ELSE IF b >= 240 /\ b <= 244 THEN 4
    ELSE 0

SafeGet(p, i) == IF i <= Len(p) THEN p[i] ELSE 0

\* b & 0xC0 == 0x80
IsCont(b) == b \div 64 = 2

\* the second byte admitted after the lead byte b0 of a three-byte sequence
Second3Ok(b0, b1) ==
    \/ b0 = 224 /\ b1 >= 160 /\ b1 <= 191
    \/ b0 >= 225 /\ b0 <= 236 /\ b1 >= 128 /\ b1 <= 191
    \/ b0 = 237 /\ b1 >= 128 /\ b1 <= 159
    \/ b0 >= 238 /\ b0 <= 239 /\ b1 >= 128 /\ b1 <= 191

\* the second byte admitted after the lead byte b0 of a four-byte sequence
Second4Ok(b0, b1) ==
    \/ b0 = 240 /\ b1 >= 144 /\ b1 <= 191
    \/ b0 >= 241 /\ b0 <= 243 /\ b1 >= 128 /\ b1 <= 191
    \/ b0 = 244 /\ b1 >= 128 /\ b1 <= 143

\* One step of the decoder at position i: the number of bytes it consumes and
\* the character it yields.  A broken sequence consumes its maximal valid
\* prefix and yields one replacement character.
DecodeAt(p, i) ==
    LET b0 == p[i]
        b1 == SafeGet(p, i + 1)
        b2 == SafeGet(p, i + 2)
        b3 == SafeGet(p, i + 3)
        w  == Utf8CharWidth(b0)
        Bad(n) == [ len |-> n, ch |-> Replacement ]
    IN  CASE w = 1 -> [ len |-> 1, ch |-> b0 ]
          [] w = 2 ->
                IF ~IsCont(b1) THEN Bad(1)
                ELSE [ len |-> 2, ch |-> (b0 % 32) * 64 + (b1 % 64) ]
          [] w = 3 ->
                IF ~Second3Ok(b0, b1) THEN Bad(1)
                ELSE IF ~IsCont(b2) THEN Bad(2)
                ELSE [ len |-> 3,
                       ch  |-> (b0 % 16) * 4096 + (b1 % 64) * 64 + (b2 % 64) ]
          [] w = 4 ->
                IF ~Second4Ok(b0, b1) THEN Bad(1)
                ELSE IF ~IsCont(b2) THEN Bad(2)
                ELSE IF ~IsCont(b3) THEN Bad(3)
                ELSE [ len |-> 4,
                       ch  |-> (b0 % 8) * 262144 + (b1 % 64) * 4096
                                 + (b2 % 64) * 64 + (b3 % 64) ]
          [] OTHER -> Bad(1)

RECURSIVE LossyFrom(_, _)
LossyFrom(p, i) ==
    IF i > Len(p) THEN << >>
    ELSE LET d == DecodeAt(p, i)
         IN  << d.ch >> \o LossyFrom(p, i + d.len)

FromUtf8Lossy(p) == LossyFrom(p, 1)

-----------------------------------------------------------------------------
(* nom::Err<&[u8]> and nom::Needed, the values the parsing engine hands over *)

ErrorKinds == { "Tag", "Alt" }

\* the bytes '0' and '.'; 0xC3 and 0xA9 (together the encoding of U+00E9,
\* each alone not valid UTF-8); 0xE2, the lead byte of a three-byte sequence
SampleBytes == { 48, 46, 195, 169, 226 }

RECURSIVE SeqsUpTo(_, _)
\* the sequences over S of length at most n
SeqsUpTo(S, n) ==
    IF n = 0 THEN { << >> }
    ELSE LET shorter == SeqsUpTo(S, n - 1)
         IN  shorter \cup { Append(s, x) : s \in shorter, x \in S }

Slices == SeqsUpTo(SampleBytes, MaxSliceLen)

\* A failure of one of the four shapes.  A field a shape does not have is << >>.
MkErr(shape, code, p, n) ==
    [ shape |-> shape, code |-> code, input |-> p, chain |-> n ]

\* The sub-errors a chain is built from: a bare kind, and a kind with the
\* input "0" it was met at.
SubErrors ==
    { MkErr("Code", "Tag", << >>, << >>),
      MkErr("Position", "Alt", << 48 >>, << >>) }

Chains == SeqsUpTo(SubErrors, MaxChainLen)

ParseFailures ==
    { MkErr("Code", k, << >>, << >>) : k \in ErrorKinds }
    \cup { MkErr("Node", k, << >>, n) : k \in ErrorKinds, n \in Chains }
    \cup { MkErr("Position", k, p, << >>) : k \in ErrorKinds, p \in Slices }
    \cup { MkErr("NodePosition", k, p, n) :
               k \in ErrorKinds, p \in Slices, n \in Chains }

NeededSignals ==
    { [ shape |-> "Unknown", size |-> 0 ] }
    \cup { [ shape |-> "Size", size |-> s ] : s \in 0..MaxNeeded }

\* Display of a nom::Err (the parsing engine's own impl), which is all the
\* fold's format!(" {}", e) sees of a sub-error: the kind alone, or the input
\* slice and the kind, both in their Debug form; never the nested chain
ErrDisplay(e) ==
    IF e.shape \in { "Code", "Node" } THEN KindDebug(e.code)
    ELSE SliceDebug(e.input) \o << 58 >> \o KindDebug(e.code)

-----------------------------------------------------------------------------
(* impl From<Err<&[u8]>> for Error *)

RECURSIVE FoldFrom(_, _, _)
\* n.iter().fold(seed, |s, e| s + &format!(" {}", e)), from element i on with
\* accumulator s
FoldFrom(s, n, i) ==
    IF i > Len(n) THEN s
    ELSE FoldFrom(s \o (<< Space >> \o ErrDisplay(n[i])), n, i + 1)

RECURSIVE FoldBackFrom(_, _, _)
\* the fold run from the last sub-error to the first
FoldBackFrom(s, n, i) ==
    IF i < 1 THEN s
    ELSE FoldBackFrom(s \o (<< Space >> \o ErrDisplay(n[i])), n, i - 1)

FoldBack(seed, n) == FoldBackFrom(seed, n, Len(n))

Fold(seed, n) == FoldFrom(seed, n, 1)

\* the Code arm with the seed phrase of the Node arm
CodeMessageDot == UnknownOriginDot

\* Err::Code(_)
CodeMessage == UnknownOrigin

\* the Node arm with the seed phrase of the Code arm
NodeMessageNoDot(n) == Fold(UnknownOrigin, n)

\* Err::Node(_, n)
NodeMessage(n) == Fold(UnknownOriginDot, n)

\* the Position arm with the format string of the NodePosition arm
PositionMessageDot(p) == WhenInputIs \o FromUtf8Lossy(p) \o << Period >>

\* the Position arm without its leading phrase
PositionMessageBare(p) == FromUtf8Lossy(p)

\* Err::Position(_, p)
PositionMessage(p) == WhenInputIs \o FromUtf8Lossy(p)

\* Err::NodePosition(_, p, n)
NodePositionMessage(p, n) ==
    Fold(WhenInputIs \o FromUtf8Lossy(p) \o << Period >>, n)

\* a conversion whose Code arm prints the kind it was given
ErrMessageWithKind(err) ==
    CASE err.shape = "Code"         ->
            UnknownOrigin \o << Space >> \o KindDebug(err.code)
      [] err.shape = "Node"         -> NodeMessage(err.chain)
      [] err.shape = "Position"     -> PositionMessage(err.input)
      [] err.shape = "NodePosition" -> NodePositionMessage(err.input, err.chain)

ErrMessage(err) ==
    CASE err.shape = "Code"         -> CodeMessage
      [] err.shape = "Node"         -> NodeMessage(err.chain)
      [] err.shape = "Position"     -> PositionMessage(err.input)
      [] err.shape = "NodePosition" -> NodePositionMessage(err.input, err.chain)

FromErr(err) == MkError("ParseError", ErrMessage(err))

-----------------------------------------------------------------------------
(* impl From<Needed> for Error *)

\* a conversion that takes Size(0) for "unknown"
NeededMessageZeroUnknown(needed) ==
    IF needed.shape = "Unknown" \/ needed.size = 0 THEN ExpectationUnknown
    ELSE ExpectedPrefix \o ToDecimal(needed.size) \o BytesSuffix

NeededMessage(needed) ==
    CASE needed.shape = "Unknown" -> ExpectationUnknown
      [] needed.shape = "Size"    ->
            ExpectedPrefix \o ToDecimal(needed.size) \o BytesSuffix

\* a conversion that wraps the message in the variant of the other conversion
FromNeededAsParse(needed) == MkError("ParseError", NeededMessage(needed))

FromNeeded(needed) == MkError("ParseIncomplete", NeededMessage(needed))

-----------------------------------------------------------------------------
(* Values built directly by the generation and recursion-guard code *)

\* "", "a", "b", "syntax error!"
DirectMessages ==
    { << >>, << 97 >>, << 98 >>,
      << 115, 121, 110, 116, 97, 120, 32, 101, 114, 114, 111, 114, 33 >> }

DirectErrors == { MkError(v, m) : v \in Variants, m \in DirectMessages }

-----------------------------------------------------------------------------
(* The life of an error value: created, consumed once, dropped *)

NoInput == [ shape |-> "None" ]
NoValue == [ variant |-> "None", msg |-> << >> ]
NoOut == [ op |-> "none" ]

Init ==
    /\ pc = "idle"
    /\ origin = "none"
    /\ input = NoInput
    /\ value = NoValue
    /\ out = NoOut

\* Error::from(err) for a parse failure of the engine
ConvertErr ==
    /\ pc = "idle"
    /\ \E err \in ParseFailures :
          /\ input' = err
          /\ value' = FromErr(err)
    /\ origin' = "parse"
    /\ pc' = "held"
    /\ UNCHANGED out

\* Error::from(needed) for an insufficient-input signal of the engine
ConvertNeeded ==
    /\ pc = "idle"
    /\ \E needed \in NeededSignals :
          /\ input' = needed
          /\ value' = FromNeeded(needed)
    /\ origin' = "needed"
    /\ pc' = "held"
    /\ UNCHANGED out

\* Error::ParseError(String::from(msg)) and the like
Construct ==
    /\ pc = "idle"
    /\ \E v \in Variants, m \in DirectMessages :
          /\ input' = MkError(v, m)
          /\ value' = MkError(v, m)
    /\ origin' = "direct"
    /\ pc' = "held"
    /\ UNCHANGED out

\* value.to_string()
Render ==
    /\ pc = "held"
    /\ out' = [ op |-> "render", text |-> Display(value) ]
    /\ pc' = "consumed"
    /\ UNCHANGED << origin, input, value >>

\* value.clone()
TakeClone ==
    /\ pc = "held"
    /\ out' = [ op |-> "clone", copy |-> Clone(value) ]
    /\ pc' = "consumed"
    /\ UNCHANGED << origin, input, value >>

\* value == other and other == value
Compare ==
    /\ pc = "held"
    /\ \E other \in DirectErrors \cup { value } :
          out' = [ op |-> "eq", other |-> other,
                   result |-> ErrorEq(value, other),
                   back |-> ErrorEq(other, value) ]
    /\ pc' = "consumed"
    /\ UNCHANGED << origin, input, value >>

\* the value goes out of scope
Drop ==
    /\ pc = "consumed"
    /\ pc' = "idle"
    /\ origin' = "none"
    /\ input' = NoInput
    /\ value' = NoValue
    /\ out' = NoOut

Next ==
    \/ ConvertErr
    \/ ConvertNeeded
    \/ Construct
    \/ Render
    \/ TakeClone
    \/ Compare
    \/ Drop

Spec == Init /\ [][Next]_vars

-----------------------------------------------------------------------------
(* Properties *)

Held == pc \in { "held", "consumed" }

\* C1: for each of the four variants and every message, rendering a value that
\* was constructed directly with the message returns exactly that message:
\* nothing is put before or after it, nothing is cut, and the variant plays no
\* part.
RenderReturnsMessage ==
    (origin = "direct" /\ out.op = "render") =>
        /\ out.text = input.msg
        /\ \A v \in Variants : Display(MkError(v, input.msg)) = out.text

\* a RecursionLimit value built with "syntax error!" has been rendered
RenderedRecursionLimit ==
    /\ origin = "direct"
    /\ out.op = "render"
    /\ input.variant = "RecursionLimit"
    /\ input.msg = << 115, 121, 110, 116, 97, 120, 32, 101, 114, 114, 111, 114, 33 >>
    /\ out.text = input.msg

RECURSIVE Joined(_)
\* for each sub-error from the first to the last: one space and its description
Joined(n) ==
    IF n = << >> THEN << >>
    ELSE << Space >> \o ErrDisplay(Head(n)) \o Joined(Tail(n))

\* C2: for a failure with a chain of sub-errors the message is the seed phrase
\* followed, for each sub-error in chain order, by one space and the sub-error's
\* description; the seed is "Parsing error: Unknown origin." for Node and
\* "Parsing error: When input is {lossy slice}." for NodePosition; for a Node
\* with the chain [e1, e2] the message is "Parsing error: Unknown origin. {e1}
\* {e2}"; no sub-error is skipped, repeated or moved.
ChainAppendedInOrder ==
    (origin = "parse" /\ Held) =>
        /\ input.shape = "Node" =>
              value.msg = UnknownOriginDot \o Joined(input.chain)
        /\ input.shape = "NodePosition" =>
              value.msg =
                  WhenInputIs \o FromUtf8Lossy(input.input) \o << Period >>
                      \o Joined(input.chain)
        /\ (input.shape = "Node" /\ Len(input.chain) = 2) =>
              value.msg =
                  UnknownOriginDot \o << Space >> \o ErrDisplay(input.chain[1])
                      \o << Space >> \o ErrDisplay(input.chain[2])

\* a Node failure with a chain of two different sub-errors has been converted
ConvertedTwoSubErrors ==
    /\ origin = "parse"
    /\ Held
    /\ input.shape = "Node"
    /\ Len(input.chain) = 2
    /\ input.chain[1] # input.chain[2]
    /\ value.msg =
          UnknownOriginDot \o << Space >> \o ErrDisplay(input.chain[1])
              \o << Space >> \o ErrDisplay(input.chain[2])

\* the well-formed UTF-8 byte sequences (Unicode, table 3-7), from position i on
RECURSIVE WellFormedFrom(_, _)
WellFormedFrom(p, i) ==
    IF i > Len(p) THEN TRUE
    ELSE LET b == [ k \in 0..3 |-> SafeGet(p, i + k) ]
             In(x, lo, hi) == x >= lo /\ x <= hi
             Tail1 == i + 1 <= Len(p) /\ In(b[1], 128, 191)
             Tail2 == i + 2 <= Len(p) /\ In(b[2], 128, 191)
             Tail3 == i + 3 <= Len(p) /\ In(b[3], 128, 191)
         IN  \/ In(b[0], 0, 127) /\ WellFormedFrom(p, i + 1)
             \/ In(b[0], 194, 223) /\ Tail1 /\ WellFormedFrom(p, i + 2)
             \/ /\ \/ b[0] = 224 /\ In(b[1], 160, 191)
                   \/ In(b[0], 225, 236) /\ In(b[1], 128, 191)
                   \/ b[0] = 237 /\ In(b[1], 128, 159)
                   \/ In(b[0], 238, 239) /\ In(b[1], 128, 191)
                /\ i + 1 <= Len(p) /\ Tail2 /\ WellFormedFrom(p, i + 3)
             \/ /\ \/ b[0] = 240 /\ In(b[1], 144, 191)
                   \/ In(b[0], 241, 243) /\ In(b[1], 128, 191)
                   \/ b[0] = 244 /\ In(b[1], 128, 143)
                /\ i + 1 <= Len(p) /\ Tail2 /\ Tail3 /\ WellFormedFrom(p, i + 4)

WellFormed(p) == WellFormedFrom(p, 1)

IsAscii(p) == \A i \in 1..Len(p) : p[i] < 128

Contains(s, c) == \E i \in 1..Len(s) : s[i] = c

\* C3: for a Position failure the message is "Parsing error: When input is "
\* followed by the lossy rendering of the whole slice and nothing after it; an
\* ASCII slice is rendered as it stands, the empty slice gives the phrase alone,
\* and a slice that is not well-formed UTF-8 still gives a message, with the
\* replacement character in it.
PositionShowsLossySlice ==
    (origin = "parse" /\ Held /\ input.shape = "Position") =>
        LET msg  == value.msg
            rest == SubSeq(msg, Len(WhenInputIs) + 1, Len(msg))
        IN  /\ Len(msg) >= Len(WhenInputIs)
            /\ SubSeq(msg, 1, Len(WhenInputIs)) = WhenInputIs
            /\ rest = FromUtf8Lossy(input.input)
            /\ IsAscii(input.input) => rest = input.input
            /\ input.input = << >> => msg = WhenInputIs
            /\ input.input = << 195, 169 >> => rest = << 233 >>
            /\ input.input = << 226, 169, 169 >> => rest = << 10857 >>
            /\ input.input = << 226, 169 >> => rest = << Replacement >>
            /\ input.input = << 169, 195, 48 >> =>
                  rest = << Replacement, Replacement, 48 >>
            /\ WellFormed(input.input) <=> ~Contains(rest, Replacement)
            /\ Len(rest) <= Len(input.input)

\* a Position failure whose slice is not well-formed UTF-8 has been converted
ConvertedBrokenSlice ==
    /\ origin = "parse"
    /\ Held
    /\ input.shape = "Position"
    /\ input.input = << 48, 169 >>
    /\ value.msg = WhenInputIs \o << 48, Replacement >>

\* C4: for a Code failure, whatever its kind, the result is ParseError with the
\* message "Parsing error: Unknown origin", without a period at its end.
CodeGivesUnknownOrigin ==
    (origin = "parse" /\ Held /\ input.shape = "Code") =>
        /\ value = MkError("ParseError", UnknownOrigin)
        /\ Len(value.msg) = 29
        /\ value.msg[Len(value.msg)] # Period
        /\ value.msg \o << Period >> = UnknownOriginDot

\* a Code failure of kind Alt has been converted
ConvertedCode ==
    /\ origin = "parse"
    /\ Held
    /\ input.shape = "Code"
    /\ input.code = "Alt"
    /\ value.msg = UnknownOrigin

RECURSIVE DigitsValue(_)
\* the number a sequence of decimal digits denotes
DigitsValue(d) ==
    IF d = << >> THEN 0
    ELSE 10 * DigitsValue(SubSeq(d, 1, Len(d) - 1)) + (d[Len(d)] - 48)

\* "Data error: insufficient size, expected 8 bytes"
Expected8Bytes ==
    << 68, 97, 116, 97, 32, 101, 114, 114, 111, 114, 58, 32, 105, 110, 115,
       117, 102, 102, 105, 99, 105, 101, 110, 116, 32, 115, 105, 122, 101,
       44, 32, 101, 120, 112, 101, 99, 116, 101, 100, 32, 56, 32, 98, 121,
       116, 101, 115 >>

\* C5: Needed::Unknown gives "Data error: insufficient size, expectation
\* unknown"; Needed::Size(N) gives "Data error: insufficient size, expected
\* {N} bytes" with N in decimal, for every N, 0 and 1 included; N = 8 gives
\* "Data error: insufficient size, expected 8 bytes".
NeededMessageExact ==
    (origin = "needed" /\ Held) =>
        LET msg == value.msg
            d   == SubSeq(msg, Len(ExpectedPrefix) + 1,
                          Len(msg) - Len(BytesSuffix))
        IN  /\ input.shape = "Unknown" => msg = ExpectationUnknown
            /\ input.shape = "Size" =>
                  /\ Len(msg) > Len(ExpectedPrefix) + Len(BytesSuffix)
                  /\ msg = ExpectedPrefix \o d \o BytesSuffix
                  /\ \A i \in 1..Len(d) : d[i] \in 48..57
                  /\ Len(d) > 1 => d[1] # 48
                  /\ DigitsValue(d) = input.size
            /\ (input.shape = "Size" /\ input.size = 8) => msg = Expected8Bytes

\* Needed::Size(0) has been converted
ConvertedSizeZero ==
    /\ origin = "needed"
    /\ Held
    /\ input.shape = "Size"
    /\ input.size = 0
    /\ value.msg = ExpectedPrefix \o << 48 >> \o BytesSuffix

IsText(s) ==
    /\ DOMAIN s = 1..Len(s)
    /\ \A i \in 1..Len(s) : s[i] \in 0..1114111

\* C6: both conversions always produce a value, and its variant is fixed by the
\* conversion: ParseError for every shape of parse failure, ParseIncomplete for
\* both shapes of Needed, never GenerateError or RecursionLimit.
VariantFixedByConversion ==
    /\ (origin = "parse" /\ Held) =>
          /\ value.variant \in Variants
          /\ value.variant = "ParseError"
          /\ IsText(value.msg)
    /\ (origin = "needed" /\ Held) =>
          /\ value.variant \in Variants
          /\ value.variant = "ParseIncomplete"
          /\ IsText(value.msg)

\* Needed::Unknown has been converted to a ParseIncomplete
ConvertedUnknown ==
    /\ origin = "needed"
    /\ Held
    /\ input.shape = "Unknown"
    /\ value.variant = "ParseIncomplete"

\* C7: the message of a value produced by either conversion is never empty,
\* also for an empty slice and for an empty chain.
ConvertedMessageNonEmpty ==
    (origin \in { "parse", "needed" } /\ Held) => Len(value.msg) > 0

\* a Position failure with the empty slice has been converted
ConvertedEmptySlice ==
    /\ origin = "parse"
    /\ Held
    /\ input.shape = "Position"
    /\ input.input = << >>
    /\ Len(value.msg) > 0

\* C8: two values are equal exactly when they have the same variant and the
\* same message; equality is reflexive, symmetric and transitive; a clone is
\* equal to its original.
EqualityIsStructural ==
    /\ out.op = "eq" =>
          /\ out.result <=> ( /\ value.variant = out.other.variant
                              /\ value.msg = out.other.msg )
          /\ out.back = out.result
          /\ ErrorEq(value, value)
          /\ \A z \in DirectErrors :
                (out.result /\ ErrorEq(out.other, z)) => ErrorEq(value, z)
    /\ out.op = "clone" =>
          /\ ErrorEq(out.copy, value)
          /\ ErrorEq(value, out.copy)

\* ParseError("a") has been compared with ParseIncomplete("a") and found different
ComparedAcrossVariants ==
    /\ out.op = "eq"
    /\ value = MkError("ParseError", << 97 >>)
    /\ out.other = MkError("ParseIncomplete", << 97 >>)
    /\ ~out.result

\* two failures differ in shape, in slice or in chain
Differ(f, g) ==
    \/ f.shape # g.shape
    \/ f.input # g.input
    \/ f.chain # g.chain

\* C9, as stated: two parse failures that differ in shape, in slice or in chain
\* never convert to the same message.
DifferentFailuresDifferentMessages ==
    (origin = "parse" /\ pc = "held") =>
        \A f \in ParseFailures :
            Differ(f, input) => FromErr(f).msg # value.msg

\* C9, amended: a Code failure never converts to the message of a failure of
\* another shape, and two Position failures whose slices are well-formed UTF-8
\* and differ never convert to the same message.
DistinctWhereFaithful ==
    (origin = "parse" /\ pc = "held") =>
        /\ input.shape # "Code" =>
              \A k \in ErrorKinds :
                  FromErr(MkErr("Code", k, << >>, << >>)).msg # value.msg
        /\ (input.shape = "Position" /\ WellFormed(input.input)) =>
              \A k \in ErrorKinds, p \in Slices :
                  (WellFormed(p) /\ p # input.input) =>
                      FromErr(MkErr("Position", k, p, << >>)).msg # value.msg

\* a Node failure with an empty chain has been converted
ConvertedEmptyChain ==
    /\ origin = "parse"
    /\ pc = "held"
    /\ input.shape = "Node"
    /\ input.chain = << >>
    /\ value.msg = UnknownOriginDot

\* C10: the result does not depend on the kind at the top of the failure: with
\* the slice and the chain kept and the kind replaced, each shape converts to an
\* equal value.
KindDoesNotMatter ==
    (origin = "parse" /\ pc = "held") =>
        \A k \in ErrorKinds :
            LET other == FromErr([ input EXCEPT !.code = k ])
            IN  /\ other = value
                /\ ErrorEq(other, value)

\* a Code failure of kind Tag has been converted
ConvertedCodeTag ==
    /\ origin = "parse"
    /\ pc = "held"
    /\ input.shape = "Code"
    /\ input.code = "Tag"
    /\ value = FromErr(MkErr("Code", "Alt", << >>, << >>))

====
